---- MODULE Spec2Model ----
(***************************************************************************)
(* Model of the quiz generation pipeline of the backend                    *)
(* (backend/server.js, backend/utils/transcriptUtils.js) and of the        *)
(* transcript cache (backend/models/TranscriptCache.js).                   *)
(*                                                                         *)
(* The specifications of the module:                                       *)
(*   SpecDist      distributeQuestionsAcrossChunks as a pure function      *)
(*   SpecSplit     splitTranscriptIntoChunks as a pure function            *)
(*   Spec          one run of generateQuiz: plan, fan-out, join, merge,    *)
(*                 trim                                                    *)
(*   SpecLive      Spec with fairness: every call settles, every step      *)
(*                 that can be taken is taken                              *)
(*   SpecChunk     one run of generateQuiz on a short transcript, the      *)
(*                 generator answering with one question                   *)
(*   SpecNegative  the same as Spec with a negative requested count        *)
(*   SpecPlan      generateQuiz up to its first await, on long transcripts *)
(*   SpecCache     concurrent getVideoInfo requests on one videoId         *)
(*   SpecLogin     POST /auth/login requests on one account                *)
(***************************************************************************)
EXTENDS Integers, Sequences, FiniteSets, TLC

VARIABLES
    \* ---- SpecDist: distributeQuestionsAcrossChunks(totalQuestions, numChunks)
    \* ---- SpecSplit: splitTranscriptIntoChunks(videoInfo.transcript, numChunks),
    \*      returning chunks
    totalQuestions,     \* argument
    numChunks,          \* argument
    distribution,       \* the returned array
    distPc,             \* "args" before the call, "returned" after, "off" in other specs
    \* ---- Spec: generateQuiz(videoInfo, numQuestions, difficulty)
    pc,                 \* position of generateQuiz: start, single, awaitAll, done, threw, off
    videoInfo,          \* [transcript |-> text], a text being a sequence of segments
    numQuestions,       \* requested total
    chunks,             \* result of splitTranscriptIntoChunks (multi-chunk path)
    questionsPerChunk,  \* quota handed to every per-chunk call
    responses,          \* per call: what the external generator did, or Pending
    returnedBy,         \* per call: the array generateQuizFromChunk resolved to
    completionOrder,    \* call indexes in the order the calls settled
    chunkQuizzes,       \* the array Promise.all resolved to
    mergedQuiz,         \* result of mergeChunkQuizzes (before trimming)
    result,             \* the array generateQuiz resolved to
    \* ---- SpecCache: TranscriptCache collection and getVideoInfo requests
    now,                \* clock, in seconds (in SpecLogin: Date.now(), in milliseconds)
    cache,              \* the stored document for the videoId, or NoDoc
    nextId,             \* _id the next inserted document gets
    origin,             \* version of the content the origin (YouTube) serves
    req,                \* per request: position, in-memory document, returned value
    calls,              \* number of getVideoInfo calls started so far
    stats               \* history: accessCount right after the last store, the
                        \* lookups completed since, the documents in the collection,
                        \* what the last completed store wrote to the document there
                        \* is, and how the last store ended
    ,
    \* ---- SpecLogin: the User document of one account and POST /auth/login
    user,               \* [failedLoginAttempts, isLocked, lockUntil] of the account
    loginAttempts,      \* the map loginAttempts: per ip the times of failed attempts
    res                 \* the last response of the handler, and what it answered to

distVars  == <<totalQuestions, numChunks, distribution, distPc>>
quizVars  == <<pc, videoInfo, numQuestions, chunks, questionsPerChunk, responses,
               returnedBy, completionOrder, chunkQuizzes, mergedQuiz, result>>
cacheVars == <<now, cache, nextId, origin, req, calls, stats>>
authVars  == <<user, loginAttempts, res>>
vars      == <<distVars, quizVars, cacheVars, authVars>>

(***************************************************************************)
(* Bounds of the model.                                                    *)
(***************************************************************************)
MaxTotal      == 13   \* SpecDist: totalQuestions ranges over 0..MaxTotal
MaxNumChunks  == 6    \* SpecDist: numChunks ranges over 1..MaxNumChunks
MaxQuestions  == 2    \* Spec: numQuestions ranges over 0..MaxQuestions
MaxWords      == 3    \* Spec: words of a transcript
MaxRaw        == 2    \* Spec: elements of an array the generator returns
ModelWordLen  == 2500 \* Spec: characters of each word of a transcript
NumRequests   == 2    \* SpecCache: getVideoInfo calls that may be in flight together
MaxCalls      == 3    \* SpecCache: getVideoInfo calls in one behaviour
MaxTicks      == 2    \* SpecCache: times the clock advances
MaxOrigin     == 2    \* SpecCache: versions of the content the origin serves
MaxNegative   == 2    \* SpecNegative: numQuestions ranges over -MaxNegative..-1
MaxSplitWords == 4    \* SpecSplit: words of a transcript
MaxSplitChunks == 3   \* SpecSplit: numChunks ranges over 1..MaxSplitChunks
ShortWordLen  == 10   \* SpecSplit: characters of a word of a short transcript
MaxPlanWords  == 36   \* SpecPlan: words of a transcript
MaxPlanQuestions == 25 \* SpecPlan: numQuestions ranges over 0..MaxPlanQuestions
PlanDelta     == 2    \* SpecPlan: lengths this close to a threshold of the planner
MaxOptionLen  == 3    \* SpecChunk: characters of an option text the generator returns
NumIps        == 1    \* SpecLogin: addresses the login requests come from
MaxLogins     == 7    \* SpecLogin: login requests in one behaviour
MaxLoginTicks == 3    \* SpecLogin: times the clock advances

(***************************************************************************)
(* Arithmetic of JavaScript numbers (integers only).                       *)
(***************************************************************************)
Min(a, b) == IF a < b THEN a ELSE b
Max(a, b) == IF a > b THEN a ELSE b

\* Math.floor(a / b) for b > 0
MathFloorDiv(a, b) == a \div b

\* Math.ceil(a / b) for a >= 0, b > 0
MathCeilDiv(a, b) == (a + b - 1) \div b

\* a % b of JavaScript for b > 0: the result has the sign of the dividend
JsRemainder(a, b) == IF a >= 0 THEN a % b ELSE 0 - ((0 - a) % b)

RECURSIVE SumSeq(_)
SumSeq(s) == IF s = <<>> THEN 0 ELSE Head(s) + SumSeq(Tail(s))

(***************************************************************************)
(* backend/utils/transcriptUtils.js                                        *)
(***************************************************************************)
\* A mutant: the remainder goes to the last chunks instead of the first.
distributeRemainderLast(total, n) ==
    IF n = 0 THEN <<>>
    ELSE LET baseQuestions == MathFloorDiv(total, n)
             remainder     == JsRemainder(total, n)
         IN  [i \in 1..n |-> baseQuestions + (IF (i - 1) >= n - remainder THEN 1 ELSE 0)]

\* distributeQuestionsAcrossChunks(totalQuestions, numChunks).  With numChunks = 0
\* the loop body never runs and the array is empty.
distributeQuestionsAcrossChunks(total, n) ==
    IF n = 0 THEN <<>>
    ELSE LET baseQuestions == MathFloorDiv(total, n)
             remainder     == JsRemainder(total, n)
         IN  [i \in 1..n |-> baseQuestions + (IF (i - 1) < remainder THEN 1 ELSE 0)]

\* A mutant: the thresholds belong to the lower step.
calculateChunksInclusive(transcriptLength) ==
    IF transcriptLength <= 5000 THEN 1
    ELSE IF transcriptLength <= 20000 THEN 2
    ELSE IF transcriptLength <= 40000 THEN 3
    ELSE IF transcriptLength <= 60000 THEN 4
    ELSE IF transcriptLength <= 80000 THEN 5
    ELSE 6

\* A mutant: no transcript is planned for more than 5 chunks.
calculateChunksUpToFive(transcriptLength) ==
    IF transcriptLength < 5000 THEN 1
    ELSE IF transcriptLength < 20000 THEN 2
    ELSE IF transcriptLength < 40000 THEN 3
    ELSE IF transcriptLength < 60000 THEN 4
    ELSE 5

\* calculateOptimalChunks(transcriptLength)
calculateOptimalChunks(transcriptLength) ==
    IF transcriptLength < 5000 THEN 1
    ELSE IF transcriptLength < 20000 THEN 2
    ELSE IF transcriptLength < 40000 THEN 3
    ELSE IF transcriptLength < 60000 THEN 4
    ELSE IF transcriptLength < 80000 THEN 5
    ELSE 6

(***************************************************************************)
(* Texts.  A text is a sequence of segments: words (maximal runs of        *)
(* non-whitespace characters, told apart by id) and runs of whitespace,    *)
(* each with its length in characters.                                     *)
(***************************************************************************)
Word(id, len)  == [kind |-> "word",  id |-> id, len |-> len]
Space(len)     == [kind |-> "space", id |-> 0,  len |-> len]
EmptyToken     == Word(0, 0)      \* the empty string as an element of split's result

RECURSIVE TextLength(_)
TextLength(t) == IF t = <<>> THEN 0 ELSE Head(t).len + TextLength(Tail(t))

\* transcript.split(/\s+/): the words in order, with an empty string in front
\* when the text starts with whitespace and one at the end when it ends with
\* whitespace; the empty text splits into one empty string.
SplitOnWhitespace(t) ==
    IF t = <<>> THEN <<EmptyToken>>
    ELSE (IF t[1].kind = "space" THEN <<EmptyToken>> ELSE <<>>)
         \o SelectSeq(t, LAMBDA seg : seg.kind = "word")
         \o (IF t[Len(t)].kind = "space" THEN <<EmptyToken>> ELSE <<>>)

\* words.slice(start, end) with 0 <= start
Slice(s, start, end) ==
    IF start >= Min(end, Len(s)) THEN <<>>
    ELSE SubSeq(s, start + 1, Min(end, Len(s)))

\* tokens.join(' ')
RECURSIVE JoinWithSpace(_)
JoinWithSpace(tokens) ==
    IF tokens = <<>> THEN <<>>
    ELSE (IF Head(tokens) = EmptyToken THEN <<>> ELSE <<Head(tokens)>>)
         \o (IF Tail(tokens) = <<>> THEN <<>> ELSE <<Space(1)>>)
         \o JoinWithSpace(Tail(tokens))

\* chunk.trim().length > 0
TrimmedNonEmpty(t) == \E i \in DOMAIN t : t[i].kind = "word" /\ t[i].len > 0

\* A mutant: the general algorithm is applied to short transcripts as well.
splitWithoutShortCircuit(transcript, n) ==
    IF TextLength(transcript) = 0 THEN <<>>
    ELSE LET words         == SplitOnWhitespace(transcript)
             wordsPerChunk == MathCeilDiv(Len(words), n)
             chunkAt(i)    == JoinWithSpace(Slice(words, i * wordsPerChunk,
                                   Min(i * wordsPerChunk + wordsPerChunk, Len(words))))
             all           == [i \in 1..n |-> chunkAt(i - 1)]
         IN  SelectSeq(all, TrimmedNonEmpty)

\* splitTranscriptIntoChunks(transcript, numChunks)
splitTranscriptIntoChunks(transcript, n) ==
    IF TextLength(transcript) = 0 THEN <<>>
    ELSE IF TextLength(transcript) < 5000 THEN <<transcript>>
    ELSE LET words         == SplitOnWhitespace(transcript)
             wordsPerChunk == MathCeilDiv(Len(words), n)
             chunkAt(i)    == JoinWithSpace(Slice(words, i * wordsPerChunk,
                                   Min(i * wordsPerChunk + wordsPerChunk, Len(words))))
             all           == [i \in 1..n |-> chunkAt(i - 1)]
         IN  SelectSeq(all, TrimmedNonEmpty)

\* A transcript of k words of wordLen characters each, separated by one space.
WordsText(k, wordLen) ==
    LET piece(i) == IF i % 2 = 1 THEN Word((i + 1) \div 2, wordLen) ELSE Space(1)
    IN  IF k = 0 THEN <<>> ELSE [i \in 1..(2 * k - 1) |-> piece(i)]

(***************************************************************************)
(* JavaScript values.  A string is a sequence of one-character strings;    *)
(* a property of an object is a record [t, v] whose t is the type.         *)
(***************************************************************************)
Undefined     == [t |-> "undefined", v |-> <<>>]
Str(chars)    == [t |-> "string", v |-> chars]
Arr(elems)    == [t |-> "array", v |-> elems]

Whitespace    == {" "}
UpperToLower  == ("A" :> "a") @@ ("B" :> "b") @@ ("C" :> "c") @@ ("D" :> "d")
                 @@ ("Q" :> "q") @@ ("X" :> "x")

\* String.prototype.toLowerCase
ToLowerCase(chars) ==
    [i \in DOMAIN chars |->
        IF chars[i] \in DOMAIN UpperToLower THEN UpperToLower[chars[i]] ELSE chars[i]]

RECURSIVE TrimStart(_)
TrimStart(chars) ==
    IF chars # <<>> /\ Head(chars) \in Whitespace THEN TrimStart(Tail(chars)) ELSE chars

RECURSIVE TrimEnd(_)
TrimEnd(chars) ==
    IF chars # <<>> /\ chars[Len(chars)] \in Whitespace
    THEN TrimEnd(SubSeq(chars, 1, Len(chars) - 1))
    ELSE chars

\* String.prototype.trim
Trim(chars) == TrimEnd(TrimStart(chars))

\* a value used as a condition, or on the left of ||
Truthy(val) ==
    CASE val.t = "undefined" -> FALSE
      [] val.t = "string"    -> val.v # <<>>
      [] OTHER               -> TRUE

\* a || b
JsOr(a, b) == IF Truthy(a) THEN a ELSE b

OptionLabels    == {"A", "B", "C", "D", "a", "b", "c", "d"}
LabelDecoration == {")", ".", ":", "-"} \cup Whitespace

\* the characters left of opt once the longest run of decoration is dropped
RECURSIVE DropDecoration(_)
DropDecoration(chars) ==
    IF chars # <<>> /\ Head(chars) \in LabelDecoration
    THEN DropDecoration(Tail(chars))
    ELSE chars

\* opt.replace(/^[A-D][\)\.:\-\s]+/i, '').trim()
CleanOption(chars) ==
    IF Len(chars) >= 2 /\ chars[1] \in OptionLabels /\ chars[2] \in LabelDecoration
    THEN Trim(DropDecoration(Tail(chars)))
    ELSE Trim(chars)

(***************************************************************************)
(* The external generation call.  It either fails (throws or rejects) or   *)
(* returns a text: optional prose, then a body, then optional prose.  The  *)
(* body is a JSON array of objects, a JSON value that is not an array, a   *)
(* bracketed block that is not valid JSON, or nothing.                     *)
(***************************************************************************)
FailedResponse ==
    [kind |-> "failed", prefix |-> FALSE, body |-> "none", elems |-> <<>>, suffix |-> FALSE]
TextResponse(prefix, body, elems, suffix) ==
    [kind |-> "text", prefix |-> prefix, body |-> body, elems |-> elems, suffix |-> suffix]

\* JSON.parse(text): [ok |-> it returned, value |-> what it returned]
JsonParse(text) ==
    IF ~text.prefix /\ ~text.suffix /\ text.body = "array"
        THEN [ok |-> TRUE, value |-> Arr(text.elems)]
    ELSE IF ~text.prefix /\ ~text.suffix /\ text.body = "object"
        THEN [ok |-> TRUE, value |-> [t |-> "object", v |-> <<>>]]
    ELSE [ok |-> FALSE, value |-> Undefined]

\* text.match(/\[.*\]/s): from the first '[' to the last ']' of the text
MatchBracketed(text) ==
    [found |-> text.body \in {"array", "brokenArray"},
     sub   |-> [text EXCEPT !.prefix = FALSE, !.suffix = FALSE]]

\* q.options.map(...) throws when q has no options array
NormalizeThrows(q) == q.options.t # "array"

\* the callback of quizData.map((q, idx) => ...), idx counted from 0
NormalizeQuestion(q, idx) ==
    [questionId     |-> idx + 1,
     question       |-> q.question,
     options        |-> [i \in DOMAIN q.options.v |-> CleanOption(q.options.v[i])],
     correct_answer |-> JsOr(q.correct_answer, q.correctAnswer),
     topic          |-> JsOr(q.topic, Str(<<"G", "e", "n", "e", "r", "a", "l">>))]

\* What the body of generateQuizFromChunk does with the generator's response:
\* threw is whether control reached the outer catch, quizData the parsed value.
ProcessResponse(response) ==
    LET strict    == JsonParse(response)
        jsonMatch == MatchBracketed(response)
        fallback  == JsonParse(jsonMatch.sub)
        quizData  == IF strict.ok THEN strict.value
                     ELSE IF jsonMatch.found THEN fallback.value
                     ELSE Arr(<<>>)
        parseThrew == ~strict.ok /\ jsonMatch.found /\ ~fallback.ok
        mapThrew   == \/ quizData.t # "array"
                      \/ \E i \in DOMAIN quizData.v : NormalizeThrows(quizData.v[i])
    IN  [threw    |-> response.kind = "failed" \/ parseThrew \/ mapThrew,
         found    |-> strict.ok \/ jsonMatch.found,
         quizData |-> quizData]

\* generateQuizFromChunk(chunkText, numQuestions, difficulty, videoTitle, chunkIndex),
\* as a function of what the external call did.  The result is always an array.
generateQuizFromChunk(response) ==
    LET p == ProcessResponse(response)
    IN  IF p.threw THEN <<>>
        ELSE [i \in DOMAIN p.quizData.v |-> NormalizeQuestion(p.quizData.v[i], i - 1)]

\* How a call ended, as recorded per call
ResponseClass(response) ==
    IF response.kind = "failed" THEN "failed"
    ELSE IF ProcessResponse(response).threw \/ ~ProcessResponse(response).found
        THEN "malformed"
    ELSE "parsed"

(***************************************************************************)
(* mergeChunkQuizzes (backend/utils/transcriptUtils.js)                    *)
(***************************************************************************)
RECURSIVE Flatten(_)
Flatten(lists) == IF lists = <<>> THEN <<>> ELSE Head(lists) \o Flatten(Tail(lists))

\* A mutant: the key keeps the case of the text.
CaseSensitiveQuestion(question) == Trim(question.question.v)

\* question.question.toLowerCase().trim()
NormalizedQuestion(question) == Trim(ToLowerCase(question.question.v))

\* A mutant: no text counts as seen.
NeverSeen(seenQuestions, normalizedQuestion) == FALSE

\* seenQuestions.has(normalizedQuestion)
SeenBefore(seenQuestions, normalizedQuestion) == normalizedQuestion \in seenQuestions

\* A mutant: the chunk-local identifier is kept.
KeepChunkLocalId(question, questionId) == question

\* { ...question, questionId: questionId++ }
WithSequentialId(question, questionId) == [question EXCEPT !.questionId = questionId]

\* The two nested loops of mergeChunkQuizzes over the questions in chunk order.
\* Reading .toLowerCase of a question text that is not a string throws.
RECURSIVE MergeLoop(_, _)
MergeLoop(questions, acc) ==
    IF questions = <<>> THEN acc
    ELSE LET question == Head(questions)
         IN  IF question.question.t # "string"
                 THEN [acc EXCEPT !.threw = TRUE]
             ELSE IF SeenBefore(acc.seenQuestions, NormalizedQuestion(question))
                 THEN MergeLoop(Tail(questions), acc)
             ELSE MergeLoop(Tail(questions),
                     [allQuestions  |-> Append(acc.allQuestions,
                                               WithSequentialId(question, acc.questionId)),
                      seenQuestions |-> acc.seenQuestions \cup {NormalizedQuestion(question)},
                      questionId    |-> acc.questionId + 1,
                      threw         |-> FALSE])

\* mergeChunkQuizzes(chunkQuizzes): [threw, allQuestions].  Every element of
\* chunkQuizzes is an array here, so the Array.isArray test never skips one.
mergeChunkQuizzes(lists) ==
    LET end == MergeLoop(Flatten(lists),
                   [allQuestions |-> <<>>, seenQuestions |-> {}, questionId |-> 1,
                    threw |-> FALSE])
    IN  [threw |-> end.threw, allQuestions |-> end.allQuestions]

\* A mutant: array.slice(-n), the last n entries.
SliceFromEnd(array, n) ==
    IF n > 0 THEN SubSeq(array, Max(1, Len(array) - n + 1), Len(array))
    ELSE <<>>

\* array.slice(0, n)
SliceFromStart(array, n) ==
    IF n >= 0 THEN SubSeq(array, 1, Min(n, Len(array)))
    ELSE SubSeq(array, 1, Max(0, Len(array) + n))

\* A mutant: the values are collected in the order the calls settled.
PromiseAllInCompletionOrder(order, returned) ==
    [k \in DOMAIN returned |-> returned[order[k]]]

\* Promise.all(chunkPromises): the values in the order of the promises
PromiseAll(order, returned) ==
    [k \in DOMAIN returned |-> returned[k]]

(***************************************************************************)
(* Inputs of the model.                                                    *)
(***************************************************************************)
PrefixedOptions ==
    Arr(<< <<"A", ")", " ", "w">>, <<"b", ".", "x">>, <<"C", ":", " ", "y">>, <<"D", "-", "z">> >>)
PlainOptions ==
    Arr(<< <<"w">>, <<"x">>, <<"y">>, <<"z">> >>)

\* Objects the generator may put in its array: four well-formed ones, of which
\* the first two differ in case and surrounding whitespace of the question text
\* only, and one without question text.
RawQuestions ==
    { [questionId |-> 1, question |-> Str(<<"Q", "1">>), options |-> PrefixedOptions,
       correct_answer |-> Str(<<"A">>), correctAnswer |-> Undefined, topic |-> Str(<<"T">>)],
      [questionId |-> 1, question |-> Str(<<" ", "q", "1", " ">>), options |-> PlainOptions,
       correct_answer |-> Undefined, correctAnswer |-> Str(<<"B">>), topic |-> Undefined],
      [questionId |-> 4, question |-> Str(<<"Q", "2">>), options |-> PlainOptions,
       correct_answer |-> Str(<<"C">>), correctAnswer |-> Undefined, topic |-> Str(<<"T">>)],
      [questionId |-> 1, question |-> Str(<<"q", "3">>), options |-> PrefixedOptions,
       correct_answer |-> Undefined, correctAnswer |-> Str(<<"D">>), topic |-> Str(<<>>)],
      [questionId |-> 2, question |-> Undefined, options |-> PlainOptions,
       correct_answer |-> Str(<<"D">>), correctAnswer |-> Undefined, topic |-> Str(<<"T">>)] }

\* An object without options.
RawWithoutOptions ==
    [questionId |-> 3, question |-> Str(<<"Q", "2">>), options |-> Undefined,
     correct_answer |-> Str(<<"A">>), correctAnswer |-> Undefined, topic |-> Str(<<"T">>)]

RawArrays == UNION { [1..n -> RawQuestions] : n \in 0..MaxRaw }

\* Option texts the generator may return in SpecChunk: every string of up to
\* MaxOptionLen characters over a label in each case, a decoration character,
\* whitespace and a letter that is no label.
OptionAlphabet == {"A", "b", ")", " ", "x"}
OptionTexts == UNION { [1..n -> OptionAlphabet] : n \in 0..MaxOptionLen }

\* Objects the generator may put in its array in SpecChunk: a question whose
\* first option is any of OptionTexts, one with three options, one with five,
\* and ones whose answer is no letter of A-D, is in lower case, or is missing.
RawWithOption(opt) ==
    [questionId |-> 1, question |-> Str(<<"Q", "1">>),
     options |-> Arr(<<opt, <<"x">>, <<"y">>, <<"z">> >>),
     correct_answer |-> Str(<<"A">>), correctAnswer |-> Undefined, topic |-> Str(<<"T">>)]
RawWithAnswer(opts, answer) ==
    [questionId |-> 1, question |-> Str(<<"Q", "1">>), options |-> Arr(opts),
     correct_answer |-> answer, correctAnswer |-> Undefined, topic |-> Str(<<"T">>)]
ChunkRawQuestions ==
    { RawWithOption(opt) : opt \in OptionTexts }
    \cup { RawWithAnswer(PlainOptions.v, answer) :
              answer \in {Str(<<"E">>), Str(<<"a">>), Str(<<"x", " ", "y">>), Undefined} }
    \cup { RawWithAnswer(SubSeq(PlainOptions.v, 1, 3), Str(<<"A">>)),
           RawWithAnswer(PlainOptions.v \o << <<"v">> >>, Str(<<"A">>)),
           RawWithAnswer(<<>>, Str(<<"A">>)) }

\* Texts the generator may return in SpecChunk: a JSON array of one object
ChunkResponses == { TextResponse(FALSE, "array", <<q>>, FALSE) : q \in ChunkRawQuestions }

\* Texts the generator may return: a bare JSON array, a JSON array inside prose,
\* an array with an object without options, prose only, a JSON object, a
\* bracketed block that is not JSON.
TextResponses ==
    { TextResponse(FALSE, "array", a, FALSE) : a \in RawArrays }
    \cup { TextResponse(TRUE, "array", a, TRUE) : a \in {b \in RawArrays : Len(b) <= 1} }
    \cup { TextResponse(FALSE, "array", <<RawWithoutOptions>>, FALSE),
           TextResponse(TRUE, "none", <<>>, FALSE),
           TextResponse(FALSE, "object", <<>>, FALSE),
           TextResponse(TRUE, "brokenArray", <<>>, FALSE) }

\* Transcripts: no text, one word or MaxWords words of ModelWordLen characters,
\* whitespace only.
PipelineTranscripts ==
    { WordsText(k, ModelWordLen) : k \in {0, 1, MaxWords} } \cup { <<Space(5000)>> }

\* A transcript of k >= 1 words of wordLen characters each, separated by runs
\* of sep whitespace characters, after lead and before trail such characters.
SpacedText(k, wordLen, sep, lead, trail) ==
    LET piece(i) == IF i % 2 = 1 THEN Word((i + 1) \div 2, wordLen) ELSE Space(sep)
    IN  (IF lead > 0 THEN <<Space(lead)>> ELSE <<>>)
        \o [i \in 1..(2 * k - 1) |-> piece(i)]
        \o (IF trail > 0 THEN <<Space(trail)>> ELSE <<>>)

\* The transcripts splitTranscriptIntoChunks is called with in SpecSplit: the
\* empty text, whitespace only (short and long), and words (short ones, or of
\* ModelWordLen characters) with and without whitespace around them.
SplitTexts ==
    { <<>>, <<Space(1)>>, <<Space(5000)>> }
    \cup { SpacedText(k, wordLen, sep, lead, trail) :
              k \in 1..MaxSplitWords, wordLen \in {ShortWordLen, ModelWordLen},
              sep \in 1..2, lead \in 0..1, trail \in 0..1 }

\* const MAX_TRANSCRIPT_LENGTH: getVideoInfo cuts longer transcripts to it
MAX_TRANSCRIPT_LENGTH == 100000

\* A transcript of 90,000 characters: 36 words separated by one space, 35 of
\* 2,499 characters and the last of 2,500.
ScenarioTranscript ==
    [i \in 1..71 |-> IF i % 2 = 0 THEN Space(1)
                     ELSE Word((i + 1) \div 2, IF i = 71 THEN 2500 ELSE 2499)]

\* The transcripts generateQuiz is called with in SpecPlan, none longer than
\* getVideoInfo leaves them: the empty text, whitespace only, one word of a
\* length at or next to a threshold of calculateOptimalChunks, and up to
\* MaxPlanWords words of ModelWordLen or 4 * ModelWordLen characters, with
\* and without whitespace around them.
PlanTranscripts ==
    { <<>>, <<Space(5000)>>, ScenarioTranscript }
    \cup { <<Word(1, threshold + delta)>> :
              threshold \in {5000, 20000, 40000, 60000, 80000},
              delta \in (0 - PlanDelta)..PlanDelta }
    \cup { <<Word(1, MAX_TRANSCRIPT_LENGTH - delta)>> : delta \in 0..PlanDelta }
    \cup { t \in { SpacedText(k, wordLen, 1, lead, trail) :
                      k \in 1..MaxPlanWords, wordLen \in {ModelWordLen, 4 * ModelWordLen},
                      lead \in 0..1, trail \in 0..1 } :
              TextLength(t) <= MAX_TRANSCRIPT_LENGTH }

PlanLengths == { TextLength(t) : t \in PlanTranscripts }

(***************************************************************************)
(* Values of the variables a specification does not use.                   *)
(***************************************************************************)
NoDoc ==
    [present |-> FALSE, id |-> 0, content |-> 0, cachedAt |-> 0, lastAccessed |-> 0,
     accessCount |-> 0]
NoStats ==
    [base |-> 0, hits |-> 0, overlapped |-> FALSE, records |-> 0, stored |-> 0,
     storedAt |-> 0, lastStore |-> "none"]

DistOff ==
    /\ totalQuestions = 0 /\ numChunks = 0 /\ distribution = <<>> /\ distPc = "off"
QuizOff ==
    /\ pc = "off" /\ videoInfo = [transcript |-> <<>>] /\ numQuestions = 0
    /\ chunks = <<>> /\ questionsPerChunk = <<>> /\ responses = <<>>
    /\ returnedBy = <<>> /\ completionOrder = <<>> /\ chunkQuizzes = <<>>
    /\ mergedQuiz = <<>> /\ result = <<>>
CacheOff ==
    /\ now = 0 /\ cache = NoDoc /\ nextId = 0 /\ origin = 0 /\ req = <<>>
    /\ calls = 0 /\ stats = NoStats
NoUser == [failedLoginAttempts |-> 0, isLocked |-> FALSE, lockUntil |-> 0]
NoResponse == [n |-> 0, ip |-> 0, known |-> FALSE, correct |-> FALSE, status |-> 0]
AuthOff ==
    /\ user = NoUser /\ loginAttempts = <<>> /\ res = NoResponse

(***************************************************************************)
(* SpecDist: distributeQuestionsAcrossChunks on every pair of arguments.   *)
(***************************************************************************)
InitDist ==
    /\ totalQuestions \in 0..MaxTotal
    /\ numChunks \in 1..MaxNumChunks
    /\ distribution = <<>>
    /\ distPc = "args"
    /\ QuizOff /\ CacheOff /\ AuthOff

Distribute ==
    /\ distPc = "args"
    /\ distribution' = distributeQuestionsAcrossChunks(totalQuestions, numChunks)
    /\ distPc' = "returned"
    /\ UNCHANGED <<totalQuestions, numChunks, quizVars, cacheVars, authVars>>

NextDist == Distribute
SpecDist == InitDist /\ [][NextDist]_vars

(***************************************************************************)
(* SpecSplit: splitTranscriptIntoChunks on every transcript of SplitTexts  *)
(* and every numChunks of 1..MaxSplitChunks.                               *)
(***************************************************************************)
InitSplit ==
    /\ videoInfo \in [transcript : SplitTexts]
    /\ numChunks \in 1..MaxSplitChunks
    /\ chunks = <<>>
    /\ distPc = "args"
    /\ totalQuestions = 0 /\ distribution = <<>>
    /\ pc = "off" /\ numQuestions = 0
    /\ questionsPerChunk = <<>> /\ responses = <<>>
    /\ returnedBy = <<>> /\ completionOrder = <<>> /\ chunkQuizzes = <<>>
    /\ mergedQuiz = <<>> /\ result = <<>>
    /\ CacheOff /\ AuthOff

SplitTranscript ==
    /\ distPc = "args"
    /\ chunks' = splitTranscriptIntoChunks(videoInfo.transcript, numChunks)
    /\ distPc' = "returned"
    /\ UNCHANGED <<totalQuestions, numChunks, distribution, pc, videoInfo, numQuestions,
                   questionsPerChunk, responses, returnedBy, completionOrder,
                   chunkQuizzes, mergedQuiz, result, cacheVars, authVars>>

NextSplit == SplitTranscript
SpecSplit == InitSplit /\ [][NextSplit]_vars

(***************************************************************************)
(* Spec: one call of generateQuiz(videoInfo, numQuestions, difficulty).    *)
(***************************************************************************)
Init ==
    /\ pc = "start"
    /\ videoInfo \in [transcript : PipelineTranscripts]
    /\ numQuestions \in 0..MaxQuestions
    /\ chunks = <<>> /\ questionsPerChunk = <<>> /\ responses = <<>>
    /\ returnedBy = <<>> /\ completionOrder = <<>> /\ chunkQuizzes = <<>>
    /\ mergedQuiz = <<>> /\ result = <<>>
    /\ DistOff /\ CacheOff /\ AuthOff

transcriptLength == TextLength(videoInfo.transcript)
optimalChunks    == calculateOptimalChunks(transcriptLength)
useChunking      == optimalChunks > 1

\* generateQuiz up to its await on the single-chunk path: one call is started
\* with the whole transcript and the whole requested count.
StartSingle ==
    /\ pc = "start"
    /\ ~useChunking
    /\ chunks' = <<videoInfo.transcript>>
    /\ questionsPerChunk' = <<numQuestions>>
    /\ responses' = <<"pending">>
    /\ returnedBy' = << <<>> >>
    /\ pc' = "single"
    /\ UNCHANGED <<videoInfo, numQuestions, completionOrder, chunkQuizzes, mergedQuiz,
                   result, distVars, cacheVars, authVars>>

\* generateQuiz up to await Promise.all on the multi-chunk path: split, distribute,
\* start one call per chunk.
StartFanOut ==
    /\ pc = "start"
    /\ useChunking
    /\ chunks' = splitTranscriptIntoChunks(videoInfo.transcript, optimalChunks)
    /\ questionsPerChunk' = distributeQuestionsAcrossChunks(numQuestions, Len(chunks'))
    /\ responses' = [i \in DOMAIN chunks' |-> "pending"]
    /\ returnedBy' = [i \in DOMAIN chunks' |-> <<>>]
    /\ pc' = "awaitAll"
    /\ UNCHANGED <<videoInfo, numQuestions, completionOrder, chunkQuizzes, mergedQuiz,
                   result, distVars, cacheVars, authVars>>

\* A mutant: a call that failed is made again (one retry in a run).
SettleWithRetry(i, response) ==
    /\ pc \in {"single", "awaitAll"}
    /\ \/ responses[i] = "pending"
       \/ responses[i] = "failed" /\ Len(completionOrder) <= Len(chunks)
    /\ responses' = [responses EXCEPT ![i] = ResponseClass(response)]
    /\ returnedBy' = [returnedBy EXCEPT ![i] = generateQuizFromChunk(response)]
    /\ completionOrder' = Append(completionOrder, i)
    /\ UNCHANGED <<pc, videoInfo, numQuestions, chunks, questionsPerChunk, chunkQuizzes,
                   mergedQuiz, result, distVars, cacheVars, authVars>>

\* The call for chunk i settles: generateQuizFromChunk resolves to an array.
Settle(i, response) ==
    /\ pc \in {"single", "awaitAll"}
    /\ responses[i] = "pending"
    /\ responses' = [responses EXCEPT ![i] = ResponseClass(response)]
    /\ returnedBy' = [returnedBy EXCEPT ![i] = generateQuizFromChunk(response)]
    /\ completionOrder' = Append(completionOrder, i)
    /\ UNCHANGED <<pc, videoInfo, numQuestions, chunks, questionsPerChunk, chunkQuizzes,
                   mergedQuiz, result, distVars, cacheVars, authVars>>

\* model.generateContent (or reading its response) throws for chunk i
GenerationFails == \E i \in DOMAIN responses : Settle(i, FailedResponse)

\* the generator returns a text for chunk i
GenerationResponds ==
    \E i \in DOMAIN responses : \E response \in TextResponses : Settle(i, response)

\* single-chunk path: return await generateQuizFromChunk(...)
ReturnSingle ==
    /\ pc = "single"
    /\ responses[1] # "pending"
    /\ result' = returnedBy[1]
    /\ pc' = "done"
    /\ UNCHANGED <<videoInfo, numQuestions, chunks, questionsPerChunk, responses,
                   returnedBy, completionOrder, chunkQuizzes, mergedQuiz, distVars,
                   cacheVars, authVars>>

\* A mutant: the merge starts as soon as one call has settled.
MergeBeforeAll ==
    /\ pc = "awaitAll"
    /\ \E i \in DOMAIN responses : responses[i] # "pending"
    /\ chunkQuizzes' = PromiseAll(completionOrder, returnedBy)
    /\ LET merged == mergeChunkQuizzes(chunkQuizzes')
       IN  IF merged.threw
           THEN /\ pc' = "threw"
                /\ UNCHANGED <<mergedQuiz, result>>
           ELSE /\ mergedQuiz' = merged.allQuestions
                /\ result' = IF Len(merged.allQuestions) > numQuestions
                             THEN SliceFromStart(merged.allQuestions, numQuestions)
                             ELSE merged.allQuestions
                /\ pc' = "done"
    /\ UNCHANGED <<videoInfo, numQuestions, chunks, questionsPerChunk, responses,
                   returnedBy, completionOrder, distVars, cacheVars, authVars>>

\* multi-chunk path after await Promise.all: merge, trim, return; an exception
\* of mergeChunkQuizzes leaves generateQuiz as a rejection.
MergeAndReturn ==
    /\ pc = "awaitAll"
    /\ \A i \in DOMAIN responses : responses[i] # "pending"
    /\ chunkQuizzes' = PromiseAll(completionOrder, returnedBy)
    /\ LET merged == mergeChunkQuizzes(chunkQuizzes')
       IN  IF merged.threw
           THEN /\ pc' = "threw"
                /\ UNCHANGED <<mergedQuiz, result>>
           ELSE /\ mergedQuiz' = merged.allQuestions
                /\ result' = IF Len(merged.allQuestions) > numQuestions
                             THEN SliceFromStart(merged.allQuestions, numQuestions)
                             ELSE merged.allQuestions
                /\ pc' = "done"
    /\ UNCHANGED <<videoInfo, numQuestions, chunks, questionsPerChunk, responses,
                   returnedBy, completionOrder, distVars, cacheVars, authVars>>

Next ==
    \/ StartSingle
    \/ StartFanOut
    \/ GenerationFails
    \/ GenerationResponds
    \/ ReturnSingle
    \/ MergeAndReturn

Spec == Init /\ [][Next]_vars

\* The enabling condition of MergeAndReturn: every call has settled.
AllSettled ==
    /\ pc = "awaitAll"
    /\ \A i \in DOMAIN responses : responses[i] # "pending"

\* WF_vars(MergeAndReturn), with ENABLED <<MergeAndReturn>>_vars written out
\* as AllSettled.
WeakFairMergeAndReturn == []<>(~AllSettled) \/ []<><<MergeAndReturn>>_vars

\* Spec with progress.  Every started generation call settles: GenerationFails
\* is enabled exactly while a call is pending, so weak fairness on it excludes
\* the behaviours in which a call stays pending for ever and no others (a call
\* may settle with a text as well; once all have settled the action is
\* disabled).  generateQuiz takes its next step whenever it can: the event loop
\* runs every continuation that is ready.
SpecLive ==
    /\ Init /\ [][Next]_vars
    /\ WF_vars(GenerationFails)
    /\ WF_vars(StartSingle \/ StartFanOut)
    /\ WF_vars(ReturnSingle)
    /\ WeakFairMergeAndReturn

(***************************************************************************)
(* SpecChunk: one call of generateQuiz on a transcript below the           *)
(* threshold, hence one call of generateQuizFromChunk, the generator       *)
(* answering with any object of ChunkRawQuestions.                         *)
(***************************************************************************)
InitChunk ==
    /\ pc = "start"
    /\ videoInfo = [transcript |-> WordsText(1, ModelWordLen)]
    /\ numQuestions \in 0..MaxQuestions
    /\ chunks = <<>> /\ questionsPerChunk = <<>> /\ responses = <<>>
    /\ returnedBy = <<>> /\ completionOrder = <<>> /\ chunkQuizzes = <<>>
    /\ mergedQuiz = <<>> /\ result = <<>>
    /\ DistOff /\ CacheOff /\ AuthOff

\* the generator returns a text of ChunkResponses for chunk i
ChunkResponds ==
    \E i \in DOMAIN responses : \E response \in ChunkResponses : Settle(i, response)

NextChunk ==
    \/ StartSingle
    \/ GenerationFails
    \/ ChunkResponds
    \/ ReturnSingle

SpecChunk == InitChunk /\ [][NextChunk]_vars

(***************************************************************************)
(* SpecNegative: one call of generateQuiz with a negative numQuestions.    *)
(* Neither the route (which passes num_questions || numQuestions on) nor   *)
(* generateQuiz compares the count with 0.                                 *)
(***************************************************************************)
InitNegative ==
    /\ pc = "start"
    /\ videoInfo \in [transcript : PipelineTranscripts]
    /\ numQuestions \in (0 - MaxNegative)..(0 - 1)
    /\ chunks = <<>> /\ questionsPerChunk = <<>> /\ responses = <<>>
    /\ returnedBy = <<>> /\ completionOrder = <<>> /\ chunkQuizzes = <<>>
    /\ mergedQuiz = <<>> /\ result = <<>>
    /\ DistOff /\ CacheOff /\ AuthOff

SpecNegative == InitNegative /\ [][Next]_vars

(***************************************************************************)
(* SpecPlan: generateQuiz up to its first await, on transcripts of every   *)
(* planned chunk count and up to MaxPlanQuestions questions: the plan      *)
(* (calculateOptimalChunks), the split and the quotas of the calls started *)
(* for the chunks.                                                         *)
(***************************************************************************)
InitPlan ==
    /\ pc = "start"
    /\ videoInfo \in [transcript : PlanTranscripts]
    /\ numQuestions \in 0..MaxPlanQuestions
    /\ chunks = <<>> /\ questionsPerChunk = <<>> /\ responses = <<>>
    /\ returnedBy = <<>> /\ completionOrder = <<>> /\ chunkQuizzes = <<>>
    /\ mergedQuiz = <<>> /\ result = <<>>
    /\ DistOff /\ CacheOff /\ AuthOff

NextPlan ==
    \/ StartSingle
    \/ StartFanOut

SpecPlan == InitPlan /\ [][NextPlan]_vars

(***************************************************************************)
(* SpecCache: the TranscriptCache collection (one videoId) and concurrent  *)
(* calls of getVideoInfo(videoId), every caller leaving useCache at its    *)
(* default true.  Every await of getVideoInfo is a point where the other   *)
(* calls, the clock and the TTL monitor of the database may take steps.    *)
(***************************************************************************)
expireAfterSeconds == 2592000

Requests == 1..NumRequests

NoReturn            == [kind |-> "none", content |-> 0, fromCache |-> FALSE]
ReturnNull          == [kind |-> "null", content |-> 0, fromCache |-> FALSE]
ReturnInfo(c, hit)  == [kind |-> "info", content |-> c, fromCache |-> hit]

IdleRequest ==
    [pc |-> "idle", doc |-> NoDoc, ret |-> NoReturn, calledAt |-> 0, solo |-> TRUE]

\* getVideoInfo returns ret: its locals are gone
Returned(ret) == [IdleRequest EXCEPT !.pc = "done", !.ret = ret]

Active(r) == req[r].pc \in {"hit", "miss", "fetched"}

\* Request r starts a call: the calls in flight now overlap with it.
Started(r, fields) ==
    [o \in Requests |->
        IF o = r THEN fields
        ELSE IF Active(o) THEN [req[o] EXCEPT !.solo = FALSE]
        ELSE req[o]]

\* A mutant: the statistics are refreshed without counting the access.
updateAccessWithoutCount(doc, date) ==
    [doc EXCEPT !.lastAccessed = date]

\* transcriptCacheSchema.methods.updateAccess, up to the call of save():
\* this.lastAccessed = new Date(); this.accessCount += 1
updateAccess(doc, date) ==
    [doc EXCEPT !.lastAccessed = date, !.accessCount = doc.accessCount + 1]

\* A mutant: every store inserts a document, as TranscriptCache.create would.
AlwaysInserts(doc) == TRUE

\* findOneAndUpdate({videoId}, {...}, {upsert: true}) inserts a document only
\* when no document matches the filter; doc is what the filter finds.
UpsertInserts(doc) == ~doc.present

\* The document TranscriptCache.findOneAndUpdate({videoId}, {...}, {upsert: true})
\* leaves: the fields of the update are set; an inserted document gets a new
\* _id and the schema default of accessCount.
Upserted(doc, id, content, date) ==
    IF ~UpsertInserts(doc)
    THEN [doc EXCEPT !.content = content, !.cachedAt = date, !.lastAccessed = date]
    ELSE [present |-> TRUE, id |-> id, content |-> content, cachedAt |-> date,
          lastAccessed |-> date, accessCount |-> 1]

InitCache ==
    /\ now = 0
    /\ cache = NoDoc
    /\ nextId = 1
    /\ origin = 1
    /\ req = [r \in Requests |-> IdleRequest]
    /\ calls = 0
    /\ stats = NoStats
    /\ DistOff /\ QuizOff /\ AuthOff

\* getVideoInfo is called and TranscriptCache.findOne({videoId}) finds the
\* document: updateAccess changes the in-memory document and calls save().
CacheHit(r) ==
    /\ req[r].pc \in {"idle", "done"}
    /\ calls < MaxCalls
    /\ cache.present
    /\ req' = Started(r, [pc |-> "hit", doc |-> updateAccess(cache, now), ret |-> NoReturn,
                          calledAt |-> now,
                          solo |-> \A o \in Requests \ {r} : ~Active(o)])
    /\ calls' = calls + 1
    /\ UNCHANGED <<now, cache, nextId, origin, stats, distVars, quizVars, authVars>>

\* getVideoInfo is called and findOne finds nothing
CacheMiss(r) ==
    /\ req[r].pc \in {"idle", "done"}
    /\ calls < MaxCalls
    /\ ~cache.present
    /\ req' = Started(r, [pc |-> "miss", doc |-> NoDoc, ret |-> NoReturn,
                          calledAt |-> now,
                          solo |-> \A o \in Requests \ {r} : ~Active(o)])
    /\ calls' = calls + 1
    /\ UNCHANGED <<now, cache, nextId, origin, stats, distVars, quizVars, authVars>>

\* A mutant: save() writes every path of the in-memory document.
SavedWholeDocument(stored, doc) == doc

\* A mutant: the access refreshes cachedAt as well.
SavedPathsAndCachedAt(stored, doc) ==
    [stored EXCEPT !.lastAccessed = doc.lastAccessed, !.accessCount = doc.accessCount,
                   !.cachedAt = doc.lastAccessed]

\* The stored document after this.save() in updateAccess: the paths
\* updateAccess modified, lastAccessed and accessCount, are set.
SavedPaths(stored, doc) ==
    [stored EXCEPT !.lastAccessed = doc.lastAccessed, !.accessCount = doc.accessCount]

\* save() of the in-memory document: the modified paths lastAccessed and
\* accessCount are written to the stored document with the same _id, and
\* getVideoInfo returns the fields it read.
SaveAccess(r) ==
    /\ req[r].pc = "hit"
    /\ cache.present /\ cache.id = req[r].doc.id
    /\ cache' = SavedPaths(cache, req[r].doc)
    /\ req' = [req EXCEPT ![r] = Returned(ReturnInfo(req[r].doc.content, TRUE))]
    /\ stats' = [stats EXCEPT !.hits = stats.hits + 1,
                              !.overlapped = stats.overlapped \/ ~req[r].solo]
    /\ UNCHANGED <<now, nextId, origin, calls, distVars, quizVars, authVars>>

\* save() when the stored document is gone (purged, or purged and inserted
\* again under another _id), the driver reporting the missing document:
\* the error reaches the outer catch and getVideoInfo returns null.
SaveAccessDocumentGone(r) ==
    /\ req[r].pc = "hit"
    /\ ~(cache.present /\ cache.id = req[r].doc.id)
    /\ req' = [req EXCEPT ![r] = Returned(ReturnNull)]
    /\ UNCHANGED <<now, cache, nextId, origin, calls, stats, distVars, quizVars, authVars>>

\* save() when the stored document is gone, the update matching nothing
\* without an error: getVideoInfo returns the fields it read.
SaveAccessNothingMatched(r) ==
    /\ req[r].pc = "hit"
    /\ ~(cache.present /\ cache.id = req[r].doc.id)
    /\ req' = [req EXCEPT ![r] = Returned(ReturnInfo(req[r].doc.content, TRUE))]
    /\ UNCHANGED <<now, cache, nextId, origin, calls, stats, distVars, quizVars, authVars>>

\* the fetch from the origin succeeds with a transcript
FetchVideo(r) ==
    /\ req[r].pc = "miss"
    /\ req' = [req EXCEPT ![r].pc = "fetched",
                          ![r].doc = [NoDoc EXCEPT !.content = origin]]
    /\ UNCHANGED <<now, cache, nextId, origin, calls, stats, distVars, quizVars, authVars>>

\* the fetch succeeds and both transcript sources fail: transcriptText is '',
\* nothing is stored and the video info is returned
FetchWithoutTranscript(r) ==
    /\ req[r].pc = "miss"
    /\ req' = [req EXCEPT ![r] = Returned(ReturnInfo(origin, FALSE))]
    /\ UNCHANGED <<now, cache, nextId, origin, calls, stats, distVars, quizVars, authVars>>

\* the request to the origin throws, finds no item, or the video is too long
FetchFails(r) ==
    /\ req[r].pc = "miss"
    /\ req' = [req EXCEPT ![r] = Returned(ReturnNull)]
    /\ UNCHANGED <<now, cache, nextId, origin, calls, stats, distVars, quizVars, authVars>>

\* TranscriptCache.findOneAndUpdate(..., {upsert: true, new: true}) succeeds
StoreInCache(r) ==
    /\ req[r].pc = "fetched"
    /\ cache' = Upserted(cache, nextId, req[r].doc.content, now)
    /\ nextId' = IF UpsertInserts(cache) THEN nextId + 1 ELSE nextId
    /\ req' = [req EXCEPT ![r] = Returned(ReturnInfo(req[r].doc.content, FALSE))]
    /\ stats' = [base |-> cache'.accessCount, hits |-> 0, overlapped |-> FALSE,
                 records |-> stats.records + (IF UpsertInserts(cache) THEN 1 ELSE 0),
                 stored |-> req[r].doc.content,
                 storedAt |-> now,
                 lastStore |-> IF UpsertInserts(cache) THEN "inserted" ELSE "replaced"]
    /\ UNCHANGED <<now, origin, calls, distVars, quizVars, authVars>>

\* A mutant: the error of the store reaches the outer catch of getVideoInfo.
ReturnAfterOuterCatch(content) == ReturnNull

\* What getVideoInfo returns after catch (cacheError): the catch logs, and
\* the function goes on to return videoInfo, whose fromCache is false.
ReturnAfterCacheError(content) == ReturnInfo(content, FALSE)

\* findOneAndUpdate throws: the error is logged and the video info returned
StoreFails(r) ==
    /\ req[r].pc = "fetched"
    /\ req' = [req EXCEPT ![r] = Returned(ReturnAfterCacheError(req[r].doc.content))]
    /\ stats' = [stats EXCEPT !.lastStore = "failed"]
    /\ UNCHANGED <<now, cache, nextId, origin, calls, distVars, quizVars, authVars>>

\* the TTL monitor deletes the document once cachedAt is expireAfterSeconds old
Purge ==
    /\ cache.present
    /\ now >= cache.cachedAt + expireAfterSeconds
    /\ cache' = NoDoc
    /\ stats' = [stats EXCEPT !.records = 0, !.stored = 0, !.storedAt = 0]
    /\ UNCHANGED <<now, nextId, origin, req, calls, distVars, quizVars, authVars>>

\* the clock advances by half the retention window
Tick ==
    /\ now < MaxTicks * (expireAfterSeconds \div 2)
    /\ now' = now + (expireAfterSeconds \div 2)
    /\ UNCHANGED <<cache, nextId, origin, req, calls, stats, distVars, quizVars, authVars>>

\* the origin serves new content for the video (title, transcript)
OriginChanges ==
    /\ origin < MaxOrigin
    /\ origin' = origin + 1
    /\ UNCHANGED <<now, cache, nextId, req, calls, stats, distVars, quizVars, authVars>>

NextCache ==
    \/ \E r \in Requests : CacheHit(r)
    \/ \E r \in Requests : CacheMiss(r)
    \/ \E r \in Requests : SaveAccess(r)
    \/ \E r \in Requests : SaveAccessDocumentGone(r)
    \/ \E r \in Requests : SaveAccessNothingMatched(r)
    \/ \E r \in Requests : FetchVideo(r)
    \/ \E r \in Requests : FetchWithoutTranscript(r)
    \/ \E r \in Requests : FetchFails(r)
    \/ \E r \in Requests : StoreInCache(r)
    \/ \E r \in Requests : StoreFails(r)
    \/ Purge
    \/ Tick
    \/ OriginChanges

SpecCache == InitCache /\ [][NextCache]_vars

(***************************************************************************)
(* SpecLogin: POST /auth/login for one account (backend/server.js) with    *)
(* the User document (backend/models/User.js).  Every request carries an   *)
(* identifier and a password; each runs to its response before the next.   *)
(***************************************************************************)
MAX_LOGIN_ATTEMPTS == 5
LOGIN_TIMEOUT      == 15 * 60 * 1000
LockDuration       == 30 * 60 * 1000

Ips == 1..NumIps

\* loginAttempts after the clean-up at the start of the handler
CleanedAttempts(t) ==
    [ip \in Ips |-> SelectSeq(loginAttempts[ip], LAMBDA time : t - time < LOGIN_TIMEOUT)]

Respond(ip, known, correct, status) ==
    [n |-> res.n + 1, ip |-> ip, known |-> known, correct |-> correct, status |-> status]

\* the failed password attempt: count it, lock the account at the fifth
AfterFailedPassword(u, t) ==
    [failedLoginAttempts |-> u.failedLoginAttempts + 1,
     isLocked  |-> IF u.failedLoginAttempts + 1 >= 5 THEN TRUE ELSE u.isLocked,
     lockUntil |-> IF u.failedLoginAttempts + 1 >= 5 THEN t + LockDuration ELSE u.lockUntil]

\* the successful login: reset the counters if there were failed attempts
AfterSuccessfulLogin(u) ==
    IF u.failedLoginAttempts > 0 THEN NoUser ELSE u

InitLogin ==
    /\ now = 0
    /\ user = NoUser
    /\ loginAttempts = [ip \in Ips |-> <<>>]
    /\ res = NoResponse
    /\ cache = NoDoc /\ nextId = 0 /\ origin = 0 /\ req = <<>>
    /\ calls = 0 /\ stats = NoStats
    /\ DistOff /\ QuizOff

\* app.post('/auth/login'): a request from ip for the account (known) or for
\* an identifier no user has, with the right password (correct) or not
Login(ip, known, correct) ==
    /\ res.n < MaxLogins
    /\ LET cleaned  == CleanedAttempts(now)
           attempts == cleaned[ip]
           logged   == [cleaned EXCEPT ![ip] = Append(attempts, now)]
       IN  IF Len(attempts) >= MAX_LOGIN_ATTEMPTS
           THEN /\ loginAttempts' = cleaned
                /\ res' = Respond(ip, known, correct, 429)
                /\ UNCHANGED user
           ELSE IF ~known
           THEN /\ loginAttempts' = logged
                /\ res' = Respond(ip, known, correct, 401)
                /\ UNCHANGED user
           ELSE IF user.isLocked
           THEN /\ loginAttempts' = cleaned
                /\ res' = Respond(ip, known, correct, 423)
                /\ UNCHANGED user
           ELSE IF ~correct
           THEN /\ loginAttempts' = logged
                /\ user' = AfterFailedPassword(user, now)
                /\ res' = Respond(ip, known, correct, 401)
           ELSE /\ loginAttempts' = cleaned
                /\ user' = AfterSuccessfulLogin(user)
                /\ res' = Respond(ip, known, correct, 200)
    /\ UNCHANGED <<distVars, quizVars, now, cache, nextId, origin, req, calls, stats>>

LoginRequest ==
    \E ip \in Ips : \E known \in BOOLEAN : \E correct \in BOOLEAN :
        Login(ip, known, correct)

\* the clock advances by LOGIN_TIMEOUT
LoginTick ==
    /\ now < MaxLoginTicks * LOGIN_TIMEOUT
    /\ now' = now + LOGIN_TIMEOUT
    /\ UNCHANGED <<distVars, quizVars, cache, nextId, origin, req, calls, stats, authVars>>

NextLogin ==
    \/ LoginRequest
    \/ LoginTick

SpecLogin == InitLogin /\ [][NextLogin]_vars

(***************************************************************************)
(* Definitions the properties share.                                       *)
(***************************************************************************)
\* the text two questions must not share: lower-cased and trimmed
KeyOf(q) == Trim(ToLowerCase(q.question.v))

\* everything of a question but its identifier
SameContent(a, b) ==
    /\ a.question = b.question
    /\ a.options = b.options
    /\ a.correct_answer = b.correct_answer
    /\ a.topic = b.topic

\* occurrences <<chunk index, position in chunk>> of the questions in lists
Occurrences(lists) ==
    UNION { { <<c, p>> : p \in DOMAIN lists[c] } : c \in DOMAIN lists }
Earlier(a, b) == a[1] < b[1] \/ (a[1] = b[1] /\ a[2] < b[2])
\* the occurrences no earlier occurrence shares its normalized text with
FirstOccurrences(lists) ==
    { o \in Occurrences(lists) :
        \A e \in Occurrences(lists) :
            Earlier(e, o) => KeyOf(lists[e[1]][e[2]]) # KeyOf(lists[o[1]][o[2]]) }
\* 1-based rank of first occurrence o among the first occurrences
RankOf(firsts, o) ==
    Cardinality({ e \in firsts : Earlier(e, o) \/ e = o })

NoSharedText(list) ==
    \A i, j \in DOMAIN list :
        (i < j /\ list[i].question.t = "string" /\ list[j].question.t = "string")
            => KeyOf(list[i]) # KeyOf(list[j])

AbsDiff(a, b) == IF a >= b THEN a - b ELSE b - a

(***************************************************************************)
(* C1 (SpecDist).  For every total T >= 0 and chunk count N >= 1 the       *)
(* distribution has exactly N quotas, each >= 0, summing to T, no two      *)
(* differing by more than 1, and the T mod N larger quotas come first.     *)
(***************************************************************************)
C1_QuotasSumAndSkew ==
    distPc = "returned" =>
        /\ Len(distribution) = numChunks
        /\ \A i \in DOMAIN distribution : distribution[i] >= 0
        /\ SumSeq(distribution) = totalQuestions
        /\ \A i, j \in DOMAIN distribution :
              AbsDiff(distribution[i], distribution[j]) <= 1
        /\ \A i, j \in DOMAIN distribution :
              (i <= totalQuestions % numChunks /\ j > totalQuestions % numChunks)
                  => distribution[i] = distribution[j] + 1

\* 10 questions over 3 chunks: 4, 3, 3
C1_Witness ==
    /\ distPc = "returned"
    /\ totalQuestions = 10 /\ numChunks = 3
    /\ distribution = <<4, 3, 3>>

(***************************************************************************)
(* C2 (Spec).  The list generateQuiz returns never has more than           *)
(* numQuestions entries, on the single-chunk and the multi-chunk path.     *)
(***************************************************************************)
C2_AtMostRequested ==
    pc = "done" => Len(result) <= numQuestions

(***************************************************************************)
(* C3 (Spec).  In the list generateQuiz returns the questionId values are  *)
(* 1, 2, ..., n in list order.                                             *)
(***************************************************************************)
C3_ContiguousIds ==
    pc = "done" => \A i \in DOMAIN result : result[i].questionId = i

\* multi-chunk run in which a duplicate was skipped and the list was trimmed
C3_Witness ==
    /\ pc = "done" /\ useChunking
    /\ Len(Flatten(chunkQuizzes)) > Len(mergedQuiz)
    /\ Len(mergedQuiz) > Len(result)
    /\ Len(result) >= 2
    /\ \E c \in DOMAIN chunkQuizzes : \E p \in DOMAIN chunkQuizzes[c] :
          \E i \in DOMAIN result :
              /\ SameContent(result[i], chunkQuizzes[c][p])
              /\ chunkQuizzes[c][p].questionId # i

(***************************************************************************)
(* C4 (Spec).  As claimed: no two entries of the list generateQuiz returns *)
(* share the same normalized question text, whatever the transcript length.*)
(***************************************************************************)
C4_NoSharedTextAnyLength ==
    pc = "done" => NoSharedText(result)

(***************************************************************************)
(* C4 (Spec), amended.  On the multi-chunk path (transcript of 5,000       *)
(* characters or more) no two entries of the list generateQuiz returns     *)
(* share the same normalized question text.                                *)
(***************************************************************************)
C4_NoSharedTextMultiChunk ==
    (pc = "done" /\ useChunking) => NoSharedText(result)

\* two chunks returned the same text in different case, and both texts of the
\* result are kept apart
C4_Witness ==
    /\ pc = "done" /\ useChunking
    /\ Len(result) >= 2
    /\ \E c, d \in DOMAIN chunkQuizzes :
          \E p \in DOMAIN chunkQuizzes[c] : \E r \in DOMAIN chunkQuizzes[d] :
              /\ c < d
              /\ chunkQuizzes[c][p].question # chunkQuizzes[d][r].question
              /\ KeyOf(chunkQuizzes[c][p]) = KeyOf(chunkQuizzes[d][r])

(***************************************************************************)
(* C5 (Spec).  Of the questions mergeChunkQuizzes receives with the same   *)
(* normalized text it keeps exactly one, the one with the smallest (chunk  *)
(* index, position), with that occurrence's text, options, correct answer  *)
(* and topic; the kept questions are in first-seen order.                  *)
(***************************************************************************)
C5_FirstOccurrenceKept ==
    (pc = "done" /\ useChunking) =>
        LET firsts == FirstOccurrences(chunkQuizzes)
        IN  /\ Len(mergedQuiz) = Cardinality(firsts)
            /\ \A o \in firsts :
                  /\ RankOf(firsts, o) \in DOMAIN mergedQuiz
                  /\ SameContent(mergedQuiz[RankOf(firsts, o)], chunkQuizzes[o[1]][o[2]])

\* the second chunk repeats, with other options and answer, a text of the first
C5_Witness ==
    /\ pc = "done" /\ useChunking
    /\ Len(mergedQuiz) >= 2
    /\ \E p \in DOMAIN chunkQuizzes[1] : \E r \in DOMAIN chunkQuizzes[2] :
          /\ KeyOf(chunkQuizzes[1][p]) = KeyOf(chunkQuizzes[2][r])
          /\ ~SameContent(chunkQuizzes[1][p], chunkQuizzes[2][r])
          /\ \E i \in DOMAIN mergedQuiz : SameContent(mergedQuiz[i], chunkQuizzes[1][p])

(***************************************************************************)
(* C6 (Spec).  The outcome of generateQuiz is the same for every order in  *)
(* which the per-chunk calls complete: it is the merge, in chunk-index     *)
(* order, of the arrays the calls returned, cut to the requested total.    *)
(***************************************************************************)
C6_MergedInChunkOrder ==
    (pc \in {"done", "threw"} /\ useChunking) =>
        LET byIndex == mergeChunkQuizzes([i \in DOMAIN returnedBy |-> returnedBy[i]])
        IN  /\ (pc = "threw") = byIndex.threw
            /\ pc = "done" =>
                  result = SubSeq(byIndex.allQuestions, 1,
                                  Min(numQuestions, Len(byIndex.allQuestions)))

\* the call for chunk 2 completed first, and the result starts with chunk 1's
\* question, which chunk 2 did not return
C6_Witness ==
    /\ pc = "done" /\ useChunking
    /\ completionOrder = <<2, 1>>
    /\ returnedBy[1] # <<>> /\ returnedBy[2] # <<>>
    /\ Len(result) >= 2
    /\ SameContent(result[1], returnedBy[1][1])
    /\ \A r \in DOMAIN returnedBy[2] : KeyOf(returnedBy[2][r]) # KeyOf(returnedBy[1][1])

(***************************************************************************)
(* C7 (Spec).  If the external call for a chunk fails, that chunk          *)
(* contributes an empty list, generateQuiz does not throw, and the result  *)
(* is the merge of the other chunks' lists; on the single-chunk path a     *)
(* generator failure yields an empty result.                               *)
(***************************************************************************)
C7_FailedChunkContributesNothing ==
    \A i \in DOMAIN responses :
        responses[i] = "failed" =>
            /\ returnedBy[i] = <<>>
            /\ pc # "threw"
            /\ (pc = "done" /\ ~useChunking) => result = <<>>
            /\ (pc = "done" /\ useChunking) =>
                  LET others == mergeChunkQuizzes(
                                    [k \in DOMAIN returnedBy |->
                                        IF k = i THEN <<>> ELSE returnedBy[k]])
                  IN  result = SubSeq(others.allQuestions, 1,
                                      Min(numQuestions, Len(others.allQuestions)))

(***************************************************************************)
(* C8 (Spec).  Whatever text the generator returns (unparsable, not an     *)
(* array, elements without question text, options or correct answer),      *)
(* generateQuiz returns a list and never throws.                           *)
(***************************************************************************)
C8_NeverThrows ==
    pc # "threw"

(***************************************************************************)
(* C9 (SpecCache).  When k lookups of the same videoId run concurrently,   *)
(* in any interleaving of their reads and writes, accessCount is its prior *)
(* value plus k once all have finished: no increment is lost.              *)
(***************************************************************************)
C9_NoLostIncrement ==
    (cache.present /\ \A r \in Requests : req[r].pc # "hit")
        => cache.accessCount = stats.base + stats.hits

(***************************************************************************)
(* C10 (SpecCache).  As claimed: after a store under K every sequential    *)
(* lookup of K is a hit.                                                   *)
(***************************************************************************)
StartsCall(r) == req[r].pc \in {"idle", "done"} /\ req'[r].pc \notin {"idle", "done"}

C10_EveryLookupAfterStoreHits ==
    [][\A r \in Requests :
          (StartsCall(r) /\ nextId > 1 /\ \A o \in Requests \ {r} : ~Active(o))
              => req'[r].pc = "hit"]_vars

(***************************************************************************)
(* C10 (SpecCache), amended.  After a store under K, and until the record  *)
(* is purged by the 30-day expiry, every sequential lookup of K is a hit   *)
(* that returns the stored content, raises accessCount by exactly 1 and    *)
(* refreshes lastAccessed; after n such lookups accessCount is its value   *)
(* right after the store plus n.                                           *)
(***************************************************************************)
C10_SequentialLookups ==
    /\ []((cache.present /\ ~stats.overlapped)
              => cache.accessCount = stats.base + stats.hits)
    /\ [][\A r \in Requests :
             /\ (StartsCall(r) /\ cache.present /\ \A o \in Requests \ {r} : ~Active(o))
                   => req'[r].pc = "hit"
             /\ (/\ req[r].pc = "hit" /\ req'[r].pc = "done" /\ req[r].solo
                 /\ cache.present /\ cache.id = req[r].doc.id)
                   => /\ req'[r].ret = ReturnInfo(cache.content, TRUE)
                      /\ cache'.accessCount = cache.accessCount + 1
                      /\ cache'.lastAccessed >= req[r].calledAt
                      /\ cache'.lastAccessed <= now]_vars

\* two lookups, one after the other, of a record stored earlier
C10_Witness ==
    /\ cache.present
    /\ ~stats.overlapped
    /\ stats.hits = 2
    /\ cache.accessCount = stats.base + 2
    /\ cache.lastAccessed > cache.cachedAt
    /\ \E r \in Requests :
          req[r].pc = "done" /\ req[r].ret = ReturnInfo(cache.content, TRUE)

(***************************************************************************)
(* C11 (SpecCache).  After any interleaving of stores and lookups, two     *)
(* requests that both miss and both store included, the collection holds   *)
(* at most one document for the videoId, and that document holds the       *)
(* content the last completed store wrote.                                 *)
(***************************************************************************)
C11_OneRecordWithLastStore ==
    /\ stats.records <= 1
    /\ cache.present <=> stats.records = 1
    /\ cache.present => cache.content = stats.stored

\* two requests missed and both stored, the second store replacing what the
\* first wrote with newer content
C11_Witness ==
    /\ cache.present
    /\ stats.records = 1
    /\ stats.lastStore = "replaced"
    /\ cache.content = MaxOrigin
    /\ \E r, o \in Requests :
          /\ req[r].pc = "done" /\ req[r].ret = ReturnInfo(1, FALSE)
          /\ req[o].pc = "done" /\ req[o].ret = ReturnInfo(MaxOrigin, FALSE)

(***************************************************************************)
(* C12 (SpecCache).  When the store fails after a successful fetch from    *)
(* the origin, getVideoInfo returns the video info it fetched, with        *)
(* fromCache false: the failure of the store never reaches the caller and  *)
(* the cache is left as it was.                                            *)
(***************************************************************************)
C12_StoreFailureNotPropagated ==
    [][\A r \in Requests :
          (/\ req[r].pc = "fetched" /\ req'[r].pc = "done"
           /\ stats'.lastStore = "failed")
              => /\ req'[r].ret = ReturnInfo(req[r].doc.content, FALSE)
                 /\ req'[r].ret # ReturnNull
                 /\ cache' = cache]_vars

\* the only call so far fetched the video, its store failed and it returned
\* the fetched info
C12_Witness ==
    /\ calls = 1
    /\ stats.lastStore = "failed"
    /\ ~cache.present
    /\ \E r \in Requests : req[r].pc = "done" /\ req[r].ret = ReturnInfo(origin, FALSE)

(***************************************************************************)
(* C13 (SpecNegative).  A call of generateQuiz with a negative requested   *)
(* count is rejected before any chunk generation call is made: no call of  *)
(* the external generator is started and no question list is returned.     *)
(***************************************************************************)
C13_NegativeCountRejected ==
    numQuestions < 0 =>
        /\ responses = <<>>
        /\ pc \in {"start", "threw"}

(***************************************************************************)
(* C14 (Spec).  When the transcript is empty generateQuiz returns an empty *)
(* list and no error, for every requested count and whatever the external *)
(* generator returns.                                                      *)
(***************************************************************************)
C14_EmptyTranscriptEmptyResult ==
    transcriptLength = 0 =>
        /\ pc # "threw"
        /\ pc = "done" => result = <<>>

\* the words of a text, in order
WordsOf(t) == SelectSeq(t, LAMBDA seg : seg.kind = "word" /\ seg.len > 0)

\* the words of the texts of a list, in order
RECURSIVE WordsOfAll(_)
WordsOfAll(texts) ==
    IF texts = <<>> THEN <<>> ELSE WordsOf(Head(texts)) \o WordsOfAll(Tail(texts))

(***************************************************************************)
(* C16 (SpecSplit).  As claimed: for every transcript shorter than 5,000   *)
(* characters and every numChunks, splitTranscriptIntoChunks returns       *)
(* exactly one chunk, the original text unmodified.                        *)
(***************************************************************************)
C16_ShortTranscriptOneChunk ==
    (distPc = "returned" /\ TextLength(videoInfo.transcript) < 5000)
        => chunks = <<videoInfo.transcript>>

(***************************************************************************)
(* C16 (SpecSplit), amended.  For every transcript of 1 to 4,999           *)
(* characters and every numChunks, splitTranscriptIntoChunks returns       *)
(* exactly one chunk, the original text unmodified; for the empty          *)
(* transcript it returns no chunk.                                         *)
(***************************************************************************)
C16_ShortNonEmptyTranscriptOneChunk ==
    distPc = "returned" =>
        /\ (TextLength(videoInfo.transcript) \in 1..4999)
              => chunks = <<videoInfo.transcript>>
        /\ TextLength(videoInfo.transcript) = 0 => chunks = <<>>

\* a short transcript of several words with whitespace around and double
\* whitespace between them, asked to be split in more than one chunk
C16_Witness ==
    /\ distPc = "returned"
    /\ numChunks > 1
    /\ videoInfo.transcript = SpacedText(MaxSplitWords, ShortWordLen, 2, 1, 1)
    /\ chunks = <<videoInfo.transcript>>

(***************************************************************************)
(* C17 (SpecSplit).  For a transcript of 5,000 characters or more with W   *)
(* whitespace-separated words and numChunks = N >= 1, the splitter returns *)
(* at most N chunks, none of them empty, each of at most ceil(W/N) words,  *)
(* and the words of the chunks in order are the words of the transcript.   *)
(***************************************************************************)
C17_ChunksPartitionWords ==
    (distPc = "returned" /\ TextLength(videoInfo.transcript) >= 5000 /\ numChunks >= 1)
        => LET W == Len(WordsOf(videoInfo.transcript))
           IN  /\ Len(chunks) <= numChunks
               /\ \A i \in DOMAIN chunks :
                     /\ WordsOf(chunks[i]) # <<>>
                     /\ Len(WordsOf(chunks[i])) <= MathCeilDiv(W, numChunks)
               /\ WordsOfAll(chunks) = WordsOf(videoInfo.transcript)

(***************************************************************************)
(* C15 (SpecPlan).  calculateOptimalChunks(L) is a non-decreasing step     *)
(* function of the transcript length L with values in 1..6: 1 exactly when *)
(* L < 5000, 2 for 5000 <= L < 20000, 3 up to 40000, 4 up to 60000, 5 up   *)
(* to 80000 and 6 from 80000 on.                                           *)
(***************************************************************************)
C15_StepFunction ==
    pc # "start" =>
        LET L == transcriptLength
            c == optimalChunks
        IN  /\ c \in 1..6
            /\ c = 1 <=> L < 5000
            /\ (5000 <= L /\ L < 20000) => c = 2
            /\ (20000 <= L /\ L < 40000) => c = 3
            /\ (40000 <= L /\ L < 60000) => c = 4
            /\ (60000 <= L /\ L < 80000) => c = 5
            /\ L >= 80000 => c = 6
            /\ useChunking <=> pc = "awaitAll"
            /\ \A shorter \in PlanLengths :
                  shorter <= L => calculateOptimalChunks(shorter) <= c

\* generateQuiz planned a transcript of exactly 80,000 characters: 6 chunks
C15_Witness ==
    /\ pc = "awaitAll"
    /\ transcriptLength = 80000
    /\ optimalChunks = 6

(***************************************************************************)
(* C18 (Spec).  On the multi-chunk path, for every transcript and every    *)
(* requested total T >= 0, the chunk list and the quota list used for the  *)
(* fan-out have the same length, every quota is >= 0 and the quotas sum    *)
(* exactly to T, also when the splitter returns fewer chunks than planned, *)
(* zero chunks included.                                                   *)
(***************************************************************************)
C18_QuotasMatchChunksAndSumToTotal ==
    (pc = "awaitAll" /\ numQuestions >= 0) =>
        /\ Len(questionsPerChunk) = Len(chunks)
        /\ Len(responses) = Len(chunks)
        /\ \A i \in DOMAIN questionsPerChunk : questionsPerChunk[i] >= 0
        /\ SumSeq(questionsPerChunk) = numQuestions

(***************************************************************************)
(* C19 (SpecPlan).  As claimed: for a transcript of 5,000 characters or    *)
(* more the number of chunks generateQuiz generates from is the chunk      *)
(* count the planner chose from the length; a transcript of 90,000         *)
(* characters with 25 questions is processed as 6 chunks with every quota  *)
(* 4 or 5.                                                                 *)
(***************************************************************************)
C19_GeneratesFromPlannedCount ==
    pc = "awaitAll" =>
        /\ Len(responses) = optimalChunks
        /\ (transcriptLength = 90000 /\ numQuestions = 25)
              => /\ Len(responses) = 6
                 /\ \A i \in DOMAIN questionsPerChunk : questionsPerChunk[i] \in {4, 5}

\* the text neither starts nor ends with whitespace
NoWhitespaceAround(t) ==
    t # <<>> /\ t[1].kind = "word" /\ t[Len(t)].kind = "word"

(***************************************************************************)
(* C19 (SpecPlan), amended.  For a transcript of 5,000 characters or more  *)
(* generateQuiz generates from one call per chunk the splitter returned:   *)
(* never more chunks than the count N the planner chose, and exactly N     *)
(* when the transcript has at least N * (N - 1) words and no whitespace    *)
(* at its ends; a transcript of 90,000 characters made of 30 words or more *)
(* with 25 questions is processed as 6 chunks with every quota 4 or 5.     *)
(***************************************************************************)
C19_GeneratesFromSplitChunks ==
    pc = "awaitAll" =>
        LET N == optimalChunks
            W == Len(WordsOf(videoInfo.transcript))
            enoughWords == NoWhitespaceAround(videoInfo.transcript) /\ W >= N * (N - 1)
        IN  /\ Len(responses) = Len(chunks)
            /\ Len(chunks) <= N
            /\ enoughWords => Len(chunks) = N
            /\ (transcriptLength = 90000 /\ numQuestions = 25 /\ enoughWords)
                  => /\ Len(chunks) = 6
                     /\ SumSeq(questionsPerChunk) = 25
                     /\ \A i \in DOMAIN questionsPerChunk :
                           questionsPerChunk[i] \in {4, 5}

\* the transcript of 90,000 characters with 25 questions: 6 calls started
C19_Witness ==
    /\ pc = "awaitAll"
    /\ transcriptLength = 90000
    /\ numQuestions = 25
    /\ Len(responses) = 6
    /\ questionsPerChunk = <<5, 4, 4, 4, 4, 4>>

\* a transcript with too few words for the planned count: fewer calls started
C19_ShortfallWitness ==
    /\ pc = "awaitAll"
    /\ NoWhitespaceAround(videoInfo.transcript)
    /\ Len(chunks) > 0
    /\ Len(chunks) < optimalChunks

(***************************************************************************)
(* C20 (Spec).  For every chunk and every raw output of the generator, the *)
(* list generateQuizFromChunk returns has at most as many entries as the   *)
(* quota it was called with: a longer raw output is truncated.             *)
(***************************************************************************)
C20_AtMostQuotaPerChunk ==
    \A i \in DOMAIN returnedBy :
        responses[i] # "pending" => Len(returnedBy[i]) <= questionsPerChunk[i]

AnswerLetters == { Str(<<"A">>), Str(<<"B">>), Str(<<"C">>), Str(<<"D">>) }

(***************************************************************************)
(* C21 (SpecChunk).  Every question in a list generateQuizFromChunk        *)
(* returns, and so every question in the result of generateQuiz, has       *)
(* exactly four options and a correct_answer that is one of the letters    *)
(* A, B, C, D, whatever the generator returned.                            *)
(***************************************************************************)
C21_FourOptionsAndAnswerLetter ==
    /\ \A i \in DOMAIN returnedBy : \A k \in DOMAIN returnedBy[i] :
          /\ Len(returnedBy[i][k].options) = 4
          /\ returnedBy[i][k].correct_answer \in AnswerLetters
    /\ \A k \in DOMAIN result :
          /\ Len(result[k].options) = 4
          /\ result[k].correct_answer \in AnswerLetters

\* opt starts with an option label followed by a decoration character
HasLabelDecoration(opt) ==
    Len(opt) >= 2 /\ opt[1] \in OptionLabels /\ opt[2] \in LabelDecoration

(***************************************************************************)
(* C27 (SpecChunk).  After normalization every option text is free of a    *)
(* leading option-label decoration (a letter A-D in either case followed   *)
(* by ')', '.', ':', '-' or whitespace): cleaning a cleaned option a       *)
(* second time leaves it unchanged.                                        *)
(***************************************************************************)
C27_CleanedOptionsStayClean ==
    \A i \in DOMAIN returnedBy : \A k \in DOMAIN returnedBy[i] :
        \A o \in DOMAIN returnedBy[i][k].options :
            /\ ~HasLabelDecoration(returnedBy[i][k].options[o])
            /\ CleanOption(returnedBy[i][k].options[o]) = returnedBy[i][k].options[o]

(***************************************************************************)
(* C22 (SpecCache).  A cache hit changes lastAccessed and accessCount of   *)
(* the record only: content and cachedAt stay, so lookups never extend the *)
(* expiry time cachedAt + expireAfterSeconds, and a cachedAt other than    *)
(* the one a record had is set by a store only.                            *)
(***************************************************************************)
C22_HitLeavesContentAndCachedAt ==
    [][/\ \A r \in Requests :
             (req[r].pc = "hit" /\ req'[r].pc = "done")
                 => /\ cache'.present = cache.present
                    /\ cache'.id = cache.id
                    /\ cache'.content = cache.content
                    /\ cache'.cachedAt = cache.cachedAt
       /\ (cache'.present /\ (~cache.present \/ cache'.cachedAt # cache.cachedAt))
             => \E r \in Requests :
                   /\ req[r].pc = "fetched" /\ req'[r].pc = "done"
                   /\ cache'.cachedAt = now]_vars

\* a record stored at time 0 and looked up half a retention window later is
\* due for the purge when the window is over
C22_Witness ==
    /\ cache.present
    /\ stats.hits = 1
    /\ cache.cachedAt = 0
    /\ cache.lastAccessed = expireAfterSeconds \div 2
    /\ cache.accessCount = stats.base + 1
    /\ now >= cache.cachedAt + expireAfterSeconds

(***************************************************************************)
(* C23 (SpecCache).  When a lookup (read, then write of the access         *)
(* statistics) and a store of the same videoId interleave in any order,    *)
(* the record that remains holds the content and the cachedAt the store    *)
(* wrote: the write of the lookup never restores stale content and leaves  *)
(* a valid record.                                                         *)
(***************************************************************************)
C23_StoreSurvivesOverlappingLookup ==
    cache.present =>
        /\ cache.content = stats.stored
        /\ cache.cachedAt = stats.storedAt
        /\ cache.id \in 1..(nextId - 1)
        /\ cache.accessCount >= 1
        /\ cache.lastAccessed <= now

\* a lookup read the record, a store then replaced its content, and the
\* lookup wrote its statistics last, returning the content it had read
C23_Witness ==
    /\ cache.present
    /\ stats.lastStore = "replaced"
    /\ stats.hits = 1
    /\ stats.overlapped
    /\ cache.content = MaxOrigin
    /\ \E r \in Requests : req[r].pc = "done" /\ req[r].ret = ReturnInfo(1, TRUE)

(***************************************************************************)
(* C29 (SpecCache).  If the record is purged after a lookup has read it    *)
(* and before the lookup writes lastAccessed and accessCount, the lookup   *)
(* still delivers video content to its caller instead of reporting the     *)
(* video as not found, and the cache is left without a record for the key. *)
(***************************************************************************)
C29_PurgedLookupStillDelivers ==
    [][\A r \in Requests :
          (/\ req[r].pc = "hit" /\ req'[r].pc = "done"
           /\ ~(cache.present /\ cache.id = req[r].doc.id))
              => /\ req'[r].ret.kind = "info"
                 /\ cache' = cache]_vars

(***************************************************************************)
(* C30 (SpecLogin).  An account the login handler locks after 5 failed     *)
(* password attempts is locked for 30 minutes: while the lock is active    *)
(* every login attempt is refused, and once lockUntil has passed a login   *)
(* with the correct password (from an address that is not rate-limited)    *)
(* succeeds and resets failedLoginAttempts to 0 and isLocked to false.     *)
(***************************************************************************)
C30_LockLastsThirtyMinutes ==
    [][(res'.n = res.n + 1 /\ res'.known) =>
          /\ (~user.isLocked /\ user'.isLocked)
                => /\ user'.failedLoginAttempts = 5
                   /\ user'.lockUntil = now + LockDuration
          /\ (user.isLocked /\ now < user.lockUntil) => res'.status # 200
          /\ (/\ user.isLocked /\ now >= user.lockUntil /\ res'.correct
              /\ Len(CleanedAttempts(now)[res'.ip]) < MAX_LOGIN_ATTEMPTS)
                => /\ res'.status = 200
                   /\ user'.failedLoginAttempts = 0
                   /\ ~user'.isLocked]_vars

(***************************************************************************)
(* C24 (Spec).  On the multi-chunk path every per-chunk call is started    *)
(* before generateQuiz waits for any of them, the merge step starts only   *)
(* after every per-chunk call has settled, and a call that is still        *)
(* pending can settle whatever the state of the other calls.               *)
(***************************************************************************)
C24_AllStartedThenAllSettledThenMerge ==
    /\ pc = "start" => responses = <<>> /\ completionOrder = <<>>
    /\ pc = "awaitAll" =>
          /\ useChunking
          /\ DOMAIN responses = DOMAIN chunks
          /\ \A i \in DOMAIN responses :
                responses[i] = "pending" => ENABLED Settle(i, FailedResponse)
    /\ (pc \in {"done", "threw"} /\ useChunking) =>
          /\ DOMAIN responses = DOMAIN chunks
          /\ \A i \in DOMAIN chunks :
                /\ responses[i] # "pending"
                /\ \E k \in DOMAIN completionOrder : completionOrder[k] = i
          /\ Len(chunkQuizzes) = Len(chunks)

\* Two calls settled in the reverse of their start order, the second chunk's
\* with a failure, and the merge ran after both.
C24_Witness ==
    /\ pc = "done"
    /\ Len(chunks) = 2
    /\ completionOrder = <<2, 1>>
    /\ responses[2] = ResponseClass(FailedResponse)
    /\ responses[1] # ResponseClass(FailedResponse)

(***************************************************************************)
(* C25 (Spec).  One run of generateQuiz makes exactly one generation call  *)
(* per chunk: below the threshold one call with the whole transcript and   *)
(* the requested count, otherwise one call per chunk of the split; every   *)
(* call settles once, whether it succeeds, fails or under-produces, and at *)
(* return the number of settled calls is the number of chunks.             *)
(***************************************************************************)
C25_OneCallPerChunk ==
    /\ pc = "start" => responses = <<>>
    /\ pc # "start" =>
          /\ Len(responses) = Len(chunks)
          /\ Len(completionOrder) <= Len(chunks)
          /\ \A k \in DOMAIN completionOrder :
                /\ completionOrder[k] \in DOMAIN chunks
                /\ responses[completionOrder[k]] # "pending"
                /\ \A l \in DOMAIN completionOrder :
                      completionOrder[l] = completionOrder[k] => l = k
    /\ (pc # "start" /\ ~useChunking) =>
          /\ chunks = <<videoInfo.transcript>>
          /\ questionsPerChunk = <<numQuestions>>
    /\ (pc # "start" /\ useChunking) =>
          chunks = splitTranscriptIntoChunks(videoInfo.transcript, optimalChunks)
    /\ pc \in {"done", "threw"} => Len(completionOrder) = Len(chunks)

\* Both calls of a two-chunk run failed, nothing was called again and the
\* run returned an empty list for a positive requested count.
C25_Witness ==
    /\ pc = "done"
    /\ useChunking
    /\ numQuestions > 0
    /\ responses = <<"failed", "failed">>
    /\ Len(completionOrder) = 2
    /\ result = <<>>

(***************************************************************************)
(* C26 (Spec).  On the multi-chunk path with a requested total T >= 0 the  *)
(* list generateQuiz returns is the first min(T, m) entries of the merged, *)
(* deduplicated list of length m, in the order of that list: a longer list *)
(* loses entries at its end only, a shorter one is returned as it is.      *)
(***************************************************************************)
C26_ResultIsPrefixOfMerged ==
    (pc = "done" /\ useChunking /\ numQuestions >= 0) =>
        /\ mergedQuiz = mergeChunkQuizzes(PromiseAll(completionOrder, returnedBy)).allQuestions
        /\ Len(result) = Min(numQuestions, Len(mergedQuiz))
        /\ \A k \in DOMAIN result : result[k] = mergedQuiz[k]
        /\ Len(mergedQuiz) <= numQuestions => result = mergedQuiz

\* Both chunks contributed to a merged list longer than the requested total,
\* and the entries cut off are those accepted last.
C26_Witness ==
    /\ pc = "done" /\ useChunking
    /\ numQuestions > 0
    /\ Len(chunkQuizzes) = 2
    /\ Len(chunkQuizzes[1]) >= 1 /\ Len(chunkQuizzes[2]) >= 1
    /\ Len(mergedQuiz) = Len(chunkQuizzes[1]) + Len(chunkQuizzes[2])
    /\ Len(mergedQuiz) > numQuestions
    /\ result = SubSeq(mergedQuiz, 1, numQuestions)

\* A chunk under-produced: the merged list is shorter than the requested
\* total and is returned whole.
C26_ShortfallWitness ==
    /\ pc = "done" /\ useChunking
    /\ 0 < Len(mergedQuiz) /\ Len(mergedQuiz) < numQuestions
    /\ result = mergedQuiz

(***************************************************************************)
(* C28 (SpecLive).  When every generation call settles, every call of      *)
(* generateQuiz eventually returns a list, for every number of chunks and  *)
(* every mix of successful, failed and malformed chunk results.            *)
(***************************************************************************)
C28_EventuallyReturnsList == <>(pc = "done")

\* generateQuiz always comes to an end, with a list or with an exception.
C28_EventuallyEnds == <>(pc \in {"done", "threw"})

====
